---- MODULE Spec2Model ----
(***************************************************************************)
(* State-machine model of applied-ai-service: the SQLite stores of         *)
(* app/db.py (messages, documents, chunks) and the /chat and /ingest       *)
(* handlers of app/main.py.                                                *)
(*                                                                         *)
(* Text is a TLA+ string (Len, SubSeq and \o act on its characters).       *)
(* An embedding is a sequence of integers standing for a list of floats;   *)
(* a similarity score is kept as an exact real (see _cosine_similarity).   *)
(* The created_at columns are not modelled: no code of the repository      *)
(* reads them.                                                             *)
(***************************************************************************)
EXTENDS Integers, Sequences, FiniteSets, TLC

VARIABLES
    messages,         \* table messages, rows in rowid order
    documents,        \* table documents, rows in rowid order
    chunks,           \* table chunks, rows in rowid order
    sqlite_sequence,  \* AUTOINCREMENT: the largest rowid ever given, per table
    chat,             \* the /chat requests: slot -> the handler's locals and position
    ing,              \* the /ingest request: the handler's locals and position
    call              \* the last direct call of a db.py function and what it returned

vars == <<messages, documents, chunks, sqlite_sequence, chat, ing, call>>

----------------------------------------------------------------------------
(* Helpers on sequences *)

Min(a, b) == IF a <= b THEN a ELSE b

Max(a, b) == IF a >= b THEN a ELSE b

Range(s) == {s[i] : i \in DOMAIN s}

\* list.reverse()
Reverse(s) == [i \in 1..Len(s) |-> s[Len(s) + 1 - i]]

\* s[:n] of Python, n of either sign
Take(s, n) ==
    IF n >= 0 THEN SubSeq(s, 1, Min(n, Len(s)))
    ELSE SubSeq(s, 1, Max(Len(s) + n, 0))

\* ORDER BY id DESC
RECURSIVE OrderByIdDesc(_)
OrderByIdDesc(rows) ==
    IF rows = <<>> THEN <<>>
    ELSE LET x == Head(rows)
             rest == OrderByIdDesc(Tail(rows))
             k == Cardinality({i \in DOMAIN rest : rest[i].id > x.id})
         IN SubSeq(rest, 1, k) \o <<x>> \o SubSeq(rest, k + 1, Len(rest))

\* LIMIT n of SQLite: a negative n is no limit
Limit(rows, n) == IF n < 0 THEN rows ELSE SubSeq(rows, 1, Min(n, Len(rows)))

----------------------------------------------------------------------------
(* app/db.py: the Conversation Store *)

\* save_message as an UPDATE of the newest row where one exists
save_message_Overwrite(conversation_id, role, content) ==
    /\ messages' = IF messages = <<>>
                   THEN <<[id |-> sqlite_sequence.messages + 1, conversation_id |-> conversation_id,
                           role |-> role, content |-> content]>>
                   ELSE [messages EXCEPT ![Len(messages)] =
                            [@ EXCEPT !.conversation_id = conversation_id,
                                      !.role = role, !.content = content]]
    /\ sqlite_sequence' = [sqlite_sequence EXCEPT !.messages = @ + 1]

\* INSERT INTO messages: the new row gets the next AUTOINCREMENT rowid
save_message(conversation_id, role, content) ==
    /\ messages' = Append(messages,
                          [id |-> sqlite_sequence.messages + 1,
                           conversation_id |-> conversation_id,
                           role |-> role,
                           content |-> content])
    /\ sqlite_sequence' = [sqlite_sequence EXCEPT !.messages = @ + 1]

\* load_messages without rows.reverse(): newest first
load_messages_NotReversed(conversation_id, limit) ==
    LET InConvo(r) == r.conversation_id = conversation_id
        rows == Limit(OrderByIdDesc(SelectSeq(messages, InConvo)), limit)
    IN [i \in 1..Len(rows) |-> <<rows[i].role, rows[i].content>>]

load_messages(conversation_id, limit) ==
    LET InConvo(r) == r.conversation_id = conversation_id
        rows == Limit(OrderByIdDesc(SelectSeq(messages, InConvo)), limit)
        rev == Reverse(rows)
    IN [i \in 1..Len(rev) |-> <<rev[i].role, rev[i].content>>]

----------------------------------------------------------------------------
(* app/db.py: the Document Store *)

\* INSERT INTO documents; the value is cur.lastrowid
create_document(name) ==
    /\ documents' = Append(documents, [id |-> sqlite_sequence.documents + 1, name |-> name])
    /\ sqlite_sequence' = [sqlite_sequence EXCEPT !.documents = @ + 1]

\* the components an embedding of the model may hold
Component == -4..4

\* json.dumps of a list of numbers: its number literals in order
JsonDumps(embedding) == [i \in 1..Len(embedding) |-> ToString(embedding[i])]

\* json.loads of an embedding_json column
JsonLoads(embedding_json) ==
    [i \in 1..Len(embedding_json) |-> CHOOSE n \in Component : ToString(n) = embedding_json[i]]

\* ForeignKeyOk of a connection opened without PRAGMA foreign_keys=ON
ForeignKeyOk_PragmaOff(document_id) == TRUE

\* PRAGMA foreign_keys=ON with FOREIGN KEY(document_id) REFERENCES documents(id):
\* the INSERT of a chunk passes only if its document exists
ForeignKeyOk(document_id) == \E i \in DOMAIN documents : documents[i].id = document_id

\* INSERT INTO chunks; sqlite3.IntegrityError, and nothing written, when the
\* foreign key fails
add_chunk(document_id, content, embedding) ==
    IF ForeignKeyOk(document_id)
    THEN /\ chunks' = Append(chunks,
                             [id |-> sqlite_sequence.chunks + 1,
                              document_id |-> document_id,
                              content |-> content,
                              embedding_json |-> JsonDumps(embedding)])
         /\ sqlite_sequence' = [sqlite_sequence EXCEPT !.chunks = @ + 1]
    ELSE UNCHANGED <<chunks, sqlite_sequence>>

----------------------------------------------------------------------------
(* Python's float: IEEE 754 binary64 with round-to-nearest-even, as far as
   _cosine_similarity needs it (no subnormal, infinity or NaN arises there).
   Significands have 53 bits and do not fit TLC's integers, so naturals are
   kept as sequences of limbs: <<l1, ..., ln>> is l1 + l2 * Base + ... +
   ln * Base^(n-1), every limb in 0..Base-1, the last one not 0; <<>> is 0. *)

Base == 32768

LimbBits == 15

\* drop the zero limbs at the high end
RECURSIVE BNNorm(_)
BNNorm(a) ==
    IF a = <<>> THEN <<>>
    ELSE IF a[Len(a)] = 0 THEN BNNorm(SubSeq(a, 1, Len(a) - 1))
    ELSE a

\* the limbs of the integer n >= 0
RECURSIVE BNFromInt(_)
BNFromInt(n) == IF n = 0 THEN <<>> ELSE <<n % Base>> \o BNFromInt(n \div Base)

\* limb i of a, 0 beyond its length
BNLimb(a, i) == IF i <= Len(a) THEN a[i] ELSE 0

\* -1, 0 or 1 as a < b, a = b or a > b; the limbs from i down decide
RECURSIVE BNCmpFrom(_, _, _)
BNCmpFrom(a, b, i) ==
    IF i = 0 THEN 0
    ELSE IF a[i] < b[i] THEN -1
    ELSE IF a[i] > b[i] THEN 1
    ELSE BNCmpFrom(a, b, i - 1)

BNCmp(a, b) ==
    IF Len(a) < Len(b) THEN -1
    ELSE IF Len(a) > Len(b) THEN 1
    ELSE BNCmpFrom(a, b, Len(a))

\* the limbs of a + b + carry from limb i on
RECURSIVE BNAddFrom(_, _, _, _)
BNAddFrom(a, b, i, carry) ==
    IF i > Len(a) /\ i > Len(b)
    THEN (IF carry = 0 THEN <<>> ELSE <<carry>>)
    ELSE LET t == BNLimb(a, i) + BNLimb(b, i) + carry
         IN <<t % Base>> \o BNAddFrom(a, b, i + 1, t \div Base)

BNAdd(a, b) == BNAddFrom(a, b, 1, 0)

\* the limbs of a - b - borrow from limb i on, for a >= b
RECURSIVE BNSubFrom(_, _, _, _)
BNSubFrom(a, b, i, borrow) ==
    IF i > Len(a) THEN <<>>
    ELSE LET t == a[i] - BNLimb(b, i) - borrow
         IN IF t < 0 THEN <<t + Base>> \o BNSubFrom(a, b, i + 1, 1)
            ELSE <<t>> \o BNSubFrom(a, b, i + 1, 0)

BNSub(a, b) == BNNorm(BNSubFrom(a, b, 1, 0))

\* the limbs of a * m + carry from limb i on, for 0 <= m < Base
RECURSIVE BNMulSmallFrom(_, _, _, _)
BNMulSmallFrom(a, m, i, carry) ==
    IF i > Len(a) THEN (IF carry = 0 THEN <<>> ELSE <<carry>>)
    ELSE LET t == a[i] * m + carry
         IN <<t % Base>> \o BNMulSmallFrom(a, m, i + 1, t \div Base)

BNMulSmall(a, m) == IF m = 0 THEN <<>> ELSE BNMulSmallFrom(a, m, 1, 0)

\* a * Base^k
BNShlLimbs(a, k) == IF a = <<>> THEN <<>> ELSE [i \in 1..k |-> 0] \o a

\* a * b, the limbs of b from j on
RECURSIVE BNMulFrom(_, _, _)
BNMulFrom(a, b, j) ==
    IF j > Len(b) THEN <<>>
    ELSE BNAdd(BNShlLimbs(BNMulSmall(a, b[j]), j - 1), BNMulFrom(a, b, j + 1))

BNMul(a, b) == BNMulFrom(a, b, 1)

\* a * 2^k
BNShl(a, k) == BNShlLimbs(BNMulSmall(a, 2 ^ (k % LimbBits)), k \div LimbBits)

\* floor(a / 2^k)
BNShr(a, k) ==
    LET q == k \div LimbBits
        r == k % LimbBits
        low == 2 ^ r
        high == 2 ^ (LimbBits - r)
    IN IF q >= Len(a) THEN <<>>
       ELSE BNNorm([i \in 1..(Len(a) - q) |->
                       (a[i + q] \div low) + (BNLimb(a, i + q + 1) % low) * high])

\* the number of bits of the integer n >= 0
RECURSIVE IntBitLen(_)
IntBitLen(n) == IF n = 0 THEN 0 ELSE 1 + IntBitLen(n \div 2)

BNBitLen(a) == IF a = <<>> THEN 0 ELSE LimbBits * (Len(a) - 1) + IntBitLen(a[Len(a)])

BNIsOdd(a) == a # <<>> /\ a[1] % 2 = 1

\* floor(sqrt(n)) and what is left, n - floor(sqrt(n))^2, digit by digit in
\* base 2: bit runs over the powers of 4 from the greatest one <= n down to 1
RECURSIVE BNSqrtStep(_, _, _)
BNSqrtStep(n, res, bit) ==
    IF bit = <<>> THEN [root |-> res, rest |-> n]
    ELSE LET t == BNAdd(res, bit)
         IN IF BNCmp(n, t) >= 0
            THEN BNSqrtStep(BNSub(n, t), BNAdd(BNShr(res, 1), bit), BNShr(bit, 2))
            ELSE BNSqrtStep(n, BNShr(res, 1), BNShr(bit, 2))

BNSqrt(n) ==
    IF n = <<>> THEN [root |-> <<>>, rest |-> <<>>]
    ELSE BNSqrtStep(n, <<>>, BNShl(<<1>>, 2 * ((BNBitLen(n) - 1) \div 2)))

\* long division in base 2 of rem * 2^k by b, for rem < b and as many digits k
\* as give the quotient quo digits bits: the quotient, and whether nothing is left
RECURSIVE BNDivStep(_, _, _, _)
BNDivStep(rem, b, quo, digits) ==
    IF BNBitLen(quo) >= digits THEN [quo |-> quo, exact |-> rem = <<>>]
    ELSE LET r2 == BNAdd(rem, rem)
             q2 == BNAdd(quo, quo)
         IN IF BNCmp(r2, b) >= 0
            THEN BNDivStep(BNSub(r2, b), b, BNAdd(q2, <<1>>), digits)
            ELSE BNDivStep(r2, b, q2, digits)

\* a float: sign * mant * 2^exp with sign in {-1, 0, 1} and mant a natural of
\* exactly 53 bits (as limbs); 0.0 has sign 0, mant <<>> and exp 0
FZero == [sign |-> 0, mant |-> <<>>, exp |-> 0]

MantBits == 53

\* the float nearest to sign * n * 2^e (and a little more when ~exact), ties to
\* the even significand
FRound(sign, n, e, exact) ==
    LET len == BNBitLen(n)
        s == len - MantBits
    IN IF n = <<>> \/ sign = 0 THEN FZero
       ELSE IF s <= 0 THEN [sign |-> sign, mant |-> BNShl(n, -s), exp |-> e + s]
       ELSE LET m == BNShr(n, s)
                rest == BNSub(n, BNShl(m, s))
                c == BNCmp(rest, BNShl(<<1>>, s - 1))
                up == c > 0 \/ (c = 0 /\ (~exact \/ BNIsOdd(m)))
                m1 == IF up THEN BNAdd(m, <<1>>) ELSE m
            IN IF BNBitLen(m1) > MantBits
               THEN [sign |-> sign, mant |-> BNShr(m1, 1), exp |-> e + s + 1]
               ELSE [sign |-> sign, mant |-> m1, exp |-> e + s]

\* float(n) for an integer n
FFromInt(n) ==
    IF n = 0 THEN FZero
    ELSE FRound(IF n < 0 THEN -1 ELSE 1, BNFromInt(IF n < 0 THEN -n ELSE n), 0, TRUE)

\* math.sqrt(x) for a float x >= 0: the significand is scaled by an even power
\* of 2 so that the integer root has 54 or 55 bits
FSqrt(x) ==
    IF x.sign = 0 THEN FZero
    ELSE LET odd == x.exp % 2
             n == BNShl(x.mant, 56 + odd)
             r == BNSqrt(n)
         IN FRound(1, r.root, (x.exp - odd - 56) \div 2, r.rest = <<>>)

\* x * y
FMul(x, y) ==
    IF x.sign = 0 \/ y.sign = 0 THEN FZero
    ELSE FRound(x.sign * y.sign, BNMul(x.mant, y.mant), x.exp + y.exp, TRUE)

\* x / y for y # 0.0: the quotient of the significands (between 1/2 and 2) to
\* QuotientBits binary digits, and whether there is more
QuotientBits == 57

FDiv(x, y) ==
    IF x.sign = 0 THEN FZero
    ELSE LET first == BNCmp(x.mant, y.mant) >= 0
             d == BNDivStep(IF first THEN BNSub(x.mant, y.mant) ELSE x.mant, y.mant,
                            IF first THEN <<1>> ELSE <<>>, QuotientBits)
             k == IF first THEN QuotientBits - 1 ELSE QuotientBits
         IN FRound(x.sign * y.sign, d.quo, x.exp - y.exp - k, d.exact)

\* x < y
FLess(x, y) ==
    LET MagLess(a, b) == a.exp < b.exp \/ (a.exp = b.exp /\ BNCmp(a.mant, b.mant) < 0)
    IN IF x.sign # y.sign THEN x.sign < y.sign
       ELSE IF x.sign = 1 THEN MagLess(x, y)
       ELSE IF x.sign = -1 THEN MagLess(y, x)
       ELSE FALSE

----------------------------------------------------------------------------
(* app/db.py: the Retriever *)

\* what the embedding backend returns: vectors of its one dimension
Embeddings == {<<1, 0>>, <<0, 1>>}

\* the query embeddings search_chunks is called with directly
QueryInputs == {<<1, 0>>, <<3, 4>>}

\* the embeddings add_chunk is called with directly: two that score the same
\* under every query, a zero vector, one of another dimension, and two whose
\* scores are equal as reals and differ as floats
ChunkVectors == {<<1, 0>>, <<0, 1>>, <<2, 0>>, <<0, 0>>, <<1>>, <<1, 1>>, <<3, 3>>}

\* sum of f[i] for i in 1..n
RECURSIVE Sum(_, _)
Sum(f, n) == IF n = 0 THEN 0 ELSE f[n] + Sum(f, n - 1)

\* the three accumulators of the loop over zip(a, b), which stops at the shorter
\* list: sums of products of the model's integer components, exact as floats
Accumulate(a, b) ==
    LET n == Min(Len(a), Len(b))
    IN [dot |-> Sum([i \in 1..n |-> a[i] * b[i]], n),
        na |-> Sum([i \in 1..n |-> a[i] * a[i]], n),
        nb |-> Sum([i \in 1..n |-> b[i] * b[i]], n)]

\* the accumulators that the vectors above give
Accumulated ==
    {Accumulate(q, e) : q \in Embeddings \cup QueryInputs, e \in Embeddings \cup ChunkVectors}

\* denom = math.sqrt(na) * math.sqrt(nb); dot / denom if denom else 0.0.
\* With lookup, the result for accumulators of Accumulated is read from
\* QuotientTable, where it is computed once by the same arithmetic.
RECURSIVE Quotient(_, _)
QuotientTable == [acc \in Accumulated |-> Quotient(acc, FALSE)]

Quotient(acc, lookup) ==
    IF lookup /\ acc \in Accumulated
    THEN QuotientTable[acc]
    ELSE LET denom == FMul(FSqrt(FFromInt(acc.na)), FSqrt(FFromInt(acc.nb)))
         IN IF denom.sign # 0 THEN FDiv(FFromInt(acc.dot), denom) ELSE FZero

_cosine_similarity(a, b) == Quotient(Accumulate(a, b), TRUE)

\* s < t for two scores
ScoreLess(s, t) == FLess(s, t)

\* the list scored of search_chunks before it is sorted: (score, content) per row
Scored(query_embedding) ==
    [i \in 1..Len(chunks) |->
        [score |-> _cosine_similarity(query_embedding, JsonLoads(chunks[i].embedding_json)),
         content |-> chunks[i].content]]

\* SortByScoreDesc without reverse=True: ascending
RECURSIVE SortByScoreDesc_Ascending(_)
SortByScoreDesc_Ascending(scored) ==
    IF scored = <<>> THEN <<>>
    ELSE LET x == Head(scored)
             rest == SortByScoreDesc_Ascending(Tail(scored))
             k == Cardinality({i \in DOMAIN rest : ScoreLess(rest[i].score, x.score)})
         IN SubSeq(rest, 1, k) \o <<x>> \o SubSeq(rest, k + 1, Len(rest))

\* SortByScoreDesc as an ascending stable sort that is then reversed: equal
\* scores come out in reverse scan order
SortByScoreDesc_Reversed(scored) == Reverse(SortByScoreDesc_Ascending(scored))

\* scored.sort(key=lambda t: t[0], reverse=True): descending and stable
RECURSIVE SortByScoreDesc(_)
SortByScoreDesc(scored) ==
    IF scored = <<>> THEN <<>>
    ELSE LET x == Head(scored)
             rest == SortByScoreDesc(Tail(scored))
             \* x goes after the elements that score strictly more
             k == Cardinality({i \in DOMAIN rest : ScoreLess(x.score, rest[i].score)})
         IN SubSeq(rest, 1, k) \o <<x>> \o SubSeq(rest, k + 1, Len(rest))

search_chunks(query_embedding, top_k) ==
    LET top == Take(SortByScoreDesc(Scored(query_embedding)), top_k)
    IN [i \in 1..Len(top) |-> top[i].content]

get_counts ==
    [messages |-> Len(messages), documents |-> Len(documents), chunks |-> Len(chunks)]

----------------------------------------------------------------------------
(* app/main.py: the chunking of /ingest *)

chunk_size == 800

\* the characters str.strip() removes, those str.isspace() holds for: space, \t,
\* \n, \r, \f, then as raw characters U+000B (vertical tab), U+001C to U+001F
\* (the four separators), U+0085 (next line), U+00A0 (no-break space) and U+1680.
\* The other sixteen (U+2000 to U+200A, U+2028, U+2029, U+202F, U+205F, U+3000)
\* cannot stand in a string of this module and are left out.
Whitespace ==
    {" ", "\t", "\n", "\r", "\f", "", "", "", "", "", "", " ", " "}

CharAt(text, i) == SubSeq(text, i, i)

\* str.lstrip() and str.rstrip()
RECURSIVE lstrip(_)
lstrip(text) ==
    IF Len(text) > 0 /\ CharAt(text, 1) \in Whitespace
    THEN lstrip(SubSeq(text, 2, Len(text)))
    ELSE text

RECURSIVE rstrip(_)
rstrip(text) ==
    IF Len(text) > 0 /\ CharAt(text, Len(text)) \in Whitespace
    THEN rstrip(SubSeq(text, 1, Len(text) - 1))
    ELSE text

\* str.strip(): text without its leading and trailing whitespace
strip(text) == rstrip(lstrip(text))

\* range(start, stop, step) for step > 0
\* range() that leaves out a last step shorter than step
PyRange_Floor(start, stop, step) ==
    IF stop <= start THEN <<>>
    ELSE [j \in 1..((stop - start) \div step) |-> start + (j - 1) * step]

\* range(start, stop, step) of Python for step > 0

PyRange(start, stop, step) ==
    IF stop <= start THEN <<>>
    ELSE [j \in 1..((stop - start + step - 1) \div step) |-> start + (j - 1) * step]

\* Slice with the end index included
Slice_Inclusive(text, i, j) == SubSeq(text, i + 1, Min(j + 1, Len(text)))

\* text[i : j] of Python for 0 <= i <= j
Slice(text, i, j) == SubSeq(text, i + 1, Min(j, Len(text)))

\* [text[i : i + chunk_size] for i in range(0, len(text), chunk_size)]
text_chunks(text) ==
    LET starts == PyRange(0, Len(text), chunk_size)
    IN [j \in 1..Len(starts) |-> Slice(text, starts[j], starts[j] + chunk_size)]

----------------------------------------------------------------------------
(* app/main.py: requests, backends, exception handlers *)

\* ChatRequest: both fields present, within their lengths
ValidChatRequest(conversation_id, message) ==
    /\ Len(conversation_id) >= 1 /\ Len(conversation_id) <= 128
    /\ Len(message) >= 1 /\ Len(message) <= 4000

\* IngestRequest
ValidIngestRequest(name, text) ==
    /\ Len(name) >= 1 /\ Len(name) <= 128
    /\ Len(text) >= 1 /\ Len(text) <= 200000

\* the exceptions the openai client raises: the four classes a handler is
\* registered for, and one class of the library without a handler of its own
Exceptions ==
    {"AuthenticationError", "RateLimitError", "BadRequestError", "OpenAIError",
     "APIConnectionError"}

\* the classes main.py registers an exception handler for
Registered == {"AuthenticationError", "RateLimitError", "BadRequestError", "OpenAIError"}

\* type(exc).__mro__ in the openai library, the class itself first
Mro(exc) ==
    CASE exc \in {"AuthenticationError", "RateLimitError", "BadRequestError"} ->
            <<exc, "APIStatusError", "APIError", "OpenAIError", "Exception">>
      [] exc = "APIConnectionError" -> <<exc, "APIError", "OpenAIError", "Exception">>
      [] exc = "OpenAIError" -> <<exc, "Exception">>

\* the JSONResponse of the handler registered for class cls
HandlerResponse(cls) ==
    CASE cls = "AuthenticationError" -> [status_code |-> 401, error |-> "openai_auth_error"]
      [] cls = "RateLimitError" -> [status_code |-> 429, error |-> "rate_limited"]
      [] cls = "BadRequestError" -> [status_code |-> 400, error |-> "openai_bad_request"]
      [] cls = "OpenAIError" -> [status_code |-> 502, error |-> "openai_error"]

\* ExceptionResponse with the handler of the most general registered class
ExceptionResponse_Generic(exc) ==
    LET mro == Mro(exc)
        last == CHOOSE i \in DOMAIN mro :
                    /\ mro[i] \in Registered
                    /\ \A j \in DOMAIN mro : j > i => mro[j] \notin Registered
    IN HandlerResponse(mro[last])

\* the response to a raised exception: the handler of the first class of its MRO
\* that has one
ExceptionResponse(exc) ==
    LET mro == Mro(exc)
        first == CHOOSE i \in DOMAIN mro :
                    /\ mro[i] \in Registered
                    /\ \A j \in DOMAIN mro : j < i => mro[j] \notin Registered
    IN HandlerResponse(mro[first])

\* the 422 of validation_exception_handler
ValidationResponse == [status_code |-> 422, error |-> "validation_error"]

\* a 200 response
OkResponse == [status_code |-> 200, error |-> ""]

\* str.join
RECURSIVE Join(_, _)
Join(sep, parts) ==
    IF parts = <<>> THEN ""
    ELSE IF Len(parts) = 1 THEN parts[1]
    ELSE parts[1] \o sep \o Join(sep, Tail(parts))

\* the system message chat puts first when something was retrieved
ContextMessage(retrieved) ==
    [role |-> "system",
     content |-> "Use the following retrieved context when helpful:\n\n"
                 \o Join("\n\n---\n\n", retrieved)]

\* what completion.choices[0].message.content may be: None, or a text
NoContent == [present |-> FALSE, text |-> ""]

Content(text) == [present |-> TRUE, text |-> text]

\* completion.choices[0].message.content or "": None and "" both give ""
ContentOrEmpty(content) == IF content.present /\ content.text # "" THEN content.text ELSE ""

----------------------------------------------------------------------------
(* Bounds and inputs of the service model *)

\* concurrent /chat requests
NChat == 2

ChatSlots == 1..NChat

\* the bodies /chat is called with; the empty message fails validation
ChatBodies ==
    {[conversation_id |-> "c1", message |-> "hi"],
     [conversation_id |-> "c2", message |-> "yo"],
     [conversation_id |-> "c1", message |-> ""]}

\* what the generation backend returns as content
Contents == {NoContent, Content("ok")}

\* a text of 1792 characters with spaces and line breaks inside
Pat7 == "a\nbcde "

Pat56 == Pat7 \o Pat7 \o Pat7 \o Pat7 \o Pat7 \o Pat7 \o Pat7 \o Pat7

Pat448 == Pat56 \o Pat56 \o Pat56 \o Pat56 \o Pat56 \o Pat56 \o Pat56 \o Pat56

LongText == Pat448 \o Pat448 \o Pat448 \o Pat448

\* the texts /ingest is called with: blank, two full chunks, one full chunk and
\* one character inside whitespace, and "" which fails validation
IngestTexts == {" ", SubSeq(LongText, 1, 1600), " \n" \o SubSeq(LongText, 1, 801) \o "\t", ""}

----------------------------------------------------------------------------
(* The stores a run starts from *)

\* no direct call and no /stats request made yet
NoCall == [op |-> "none"]

EmptyStore ==
    [messages |-> <<>>, documents |-> <<>>, chunks |-> <<>>,
     sqlite_sequence |-> [messages |-> 0, documents |-> 0, chunks |-> 0]]

\* exchanges and documents stored by earlier requests
SeedExchanges == 11

SeedDocuments == 5

\* the store after SeedExchanges chats on "c1" and SeedDocuments one-chunk ingests
SeededStore ==
    [messages |-> [i \in 1..(2 * SeedExchanges) |->
                    [id |-> i,
                     conversation_id |-> "c1",
                     role |-> IF i % 2 = 1 THEN "user" ELSE "assistant",
                     content |-> IF i % 2 = 0 THEN "ok" ELSE IF i % 4 = 1 THEN "hi" ELSE "yo"]],
     documents |-> [i \in 1..SeedDocuments |-> [id |-> i, name |-> "doc"]],
     chunks |-> [i \in 1..SeedDocuments |->
                    [id |-> i,
                     document_id |-> i,
                     content |-> "k" \o ToString(i),
                     embedding_json |-> JsonDumps(IF i % 2 = 1 THEN <<1, 0>> ELSE <<0, 1>>)]],
     sqlite_sequence |-> [messages |-> 2 * SeedExchanges,
                          documents |-> SeedDocuments,
                          chunks |-> SeedDocuments]]

Seeds == {EmptyStore, SeededStore}

----------------------------------------------------------------------------
(* app/main.py: chat, one action per step between two suspension points *)

NoResponse == [status_code |-> 0, error |-> "", body |-> ""]

Response(status, body) == [status_code |-> status.status_code, error |-> status.error, body |-> body]

\* a request slot before its request arrives. raised is the class of the
\* exception that ended the request, if one did. pc says where the handler is:
\* "embed" inside client.embeddings.create, "generate" inside
\* client.chat.completions.create(messages=messages), "save_user" and
\* "save_assistant" before the INSERT of that name. trace, user_row and
\* assistant_row record what the request did: the calls that returned or raised,
\* in order, and the rowids of its two INSERTs.
IdleChat ==
    [pc |-> "idle", conversation_id |-> "", message |-> "",
     history |-> <<>>, messages |-> <<>>, retrieved |-> <<>>,
     assistant_text |-> "", response |-> NoResponse,
     trace |-> <<>>, raised |-> "", user_row |-> 0, assistant_row |-> 0]

\* the request is over: the handler's locals are gone; what it did stays on
\* record (trace, the rowids) with its response
Ended(q, pc, response) ==
    [q EXCEPT !.pc = pc, !.response = response,
              !.conversation_id = IF pc = "done" THEN @ ELSE "",
              !.message = IF pc = "done" THEN @ ELSE "",
              !.history = <<>>, !.messages = <<>>,
              !.retrieved = <<>>, !.assistant_text = ""]

history_limit == 20

top_k == 4

\* [{"role": role, "content": content} for role, content in history]
\* then messages.append({"role": "user", "content": req.message})
InitialMessages(history, message) ==
    [i \in 1..Len(history) |-> [role |-> history[i][1], content |-> history[i][2]]]
        \o <<[role |-> "user", content |-> message]>>

\* WithContext with the system message appended instead of inserted first
WithContext_Appended(messages_, retrieved) ==
    IF retrieved # <<>> THEN messages_ \o <<ContextMessage(retrieved)>> ELSE messages_

\* if retrieved: messages.insert(0, system message)
WithContext(messages_, retrieved) ==
    IF retrieved # <<>> THEN <<ContextMessage(retrieved)>> \o messages_ ELSE messages_

\* the request arrives (the r-th to arrive takes slot r); a body that fails
\* validation is answered 422 before the handler runs; otherwise the handler loads
\* the history and starts messages
ChatLoad(r, conversation_id, message) ==
    /\ chat[r].pc = "idle"
    /\ \A q \in ChatSlots : q < r => chat[q].pc # "idle"
    /\ IF ValidChatRequest(conversation_id, message)
       THEN LET history == load_messages(conversation_id, history_limit)
            IN chat' = [chat EXCEPT ![r] =
                          [@ EXCEPT !.pc = "embed",
                                    !.conversation_id = conversation_id,
                                    !.message = message,
                                    !.history = history,
                                    !.messages = InitialMessages(history, message),
                                    !.trace = <<"load_messages">>]]
       ELSE chat' = [chat EXCEPT ![r] = Ended(@, "rejected", Response(ValidationResponse, ""))]
    /\ UNCHANGED <<messages, documents, chunks, sqlite_sequence, ing, call>>

\* client.embeddings.create returns; then search_chunks and the system message
ChatEmbedOk(r, embedding) ==
    /\ chat[r].pc = "embed"
    /\ LET retrieved == search_chunks(embedding, top_k)
       IN chat' = [chat EXCEPT ![r] =
                     [@ EXCEPT !.pc = "generate",
                               !.retrieved = retrieved,
                               !.messages = WithContext(@, retrieved),
                               !.trace = @ \o <<"embeddings.create", "search_chunks">>]]
    /\ UNCHANGED <<messages, documents, chunks, sqlite_sequence, ing, call>>

\* ChatEmbedFail of a handler that calls the embedding backend again after a
\* first failure
ChatEmbedFail_Retry(r, exc) ==
    /\ chat[r].pc = "embed"
    /\ IF "embeddings.create" \notin Range(chat[r].trace)
       THEN chat' = [chat EXCEPT ![r] = [@ EXCEPT !.trace = @ \o <<"embeddings.create">>]]
       ELSE chat' = [chat EXCEPT ![r] =
                       Ended([@ EXCEPT !.trace = @ \o <<"embeddings.create">>, !.raised = exc],
                             "failed", Response(ExceptionResponse(exc), ""))]
    /\ UNCHANGED <<messages, documents, chunks, sqlite_sequence, ing, call>>

\* client.embeddings.create raises: the exception handler answers
ChatEmbedFail(r, exc) ==
    /\ chat[r].pc = "embed"
    /\ chat' = [chat EXCEPT ![r] =
                  Ended([@ EXCEPT !.trace = @ \o <<"embeddings.create">>, !.raised = exc],
                        "failed", Response(ExceptionResponse(exc), ""))]
    /\ UNCHANGED <<messages, documents, chunks, sqlite_sequence, ing, call>>

\* client.chat.completions.create returns
ChatGenerateOk(r, content) ==
    /\ chat[r].pc = "generate"
    /\ chat' = [chat EXCEPT ![r] =
                  [@ EXCEPT !.pc = "save_user",
                            !.assistant_text = ContentOrEmpty(content),
                            !.trace = @ \o <<"chat.completions.create">>]]
    /\ UNCHANGED <<messages, documents, chunks, sqlite_sequence, ing, call>>

\* ChatGenerateFail of a handler that saves the user turn before it generates
ChatGenerateFail_UserSaved(r, exc) ==
    /\ chat[r].pc = "generate"
    /\ save_message(chat[r].conversation_id, "user", chat[r].message)
    /\ chat' = [chat EXCEPT ![r] =
                  Ended([@ EXCEPT !.trace = @ \o <<"chat.completions.create">>, !.raised = exc],
                        "failed", Response(ExceptionResponse(exc), ""))]
    /\ UNCHANGED <<documents, chunks, ing, call>>

\* client.chat.completions.create raises
ChatGenerateFail(r, exc) ==
    /\ chat[r].pc = "generate"
    /\ chat' = [chat EXCEPT ![r] =
                  Ended([@ EXCEPT !.trace = @ \o <<"chat.completions.create">>, !.raised = exc],
                        "failed", Response(ExceptionResponse(exc), ""))]
    /\ UNCHANGED <<messages, documents, chunks, sqlite_sequence, ing, call>>

\* ChatSaveUser with the turns persisted in the other order: the assistant text
\* is appended where the user message belongs
ChatSaveUser_AssistantFirst(r) ==
    /\ chat[r].pc = "save_user"
    /\ save_message(chat[r].conversation_id, "assistant", chat[r].assistant_text)
    /\ chat' = [chat EXCEPT ![r] =
                  [@ EXCEPT !.pc = "save_assistant",
                            !.user_row = sqlite_sequence'.messages,
                            !.trace = @ \o <<"save_message">>]]
    /\ UNCHANGED <<documents, chunks, ing, call>>

\* ChatSaveUser of a handler whose first INSERT is lost
ChatSaveUser_Lost(r) ==
    /\ chat[r].pc = "save_user"
    /\ chat' = [chat EXCEPT ![r] =
                  [@ EXCEPT !.pc = "save_assistant",
                            !.trace = @ \o <<"save_message">>]]
    /\ UNCHANGED <<messages, sqlite_sequence, documents, chunks, ing, call>>

\* save_message(req.conversation_id, "user", req.message)
ChatSaveUser(r) ==
    /\ chat[r].pc = "save_user"
    /\ save_message(chat[r].conversation_id, "user", chat[r].message)
    /\ chat' = [chat EXCEPT ![r] =
                  [@ EXCEPT !.pc = "save_assistant",
                            !.user_row = sqlite_sequence'.messages,
                            !.trace = @ \o <<"save_message">>]]
    /\ UNCHANGED <<documents, chunks, ing, call>>

\* ChatSaveAssistant that stores the assistant turn under the conversation "c1"
\* whatever the request's conversation_id
ChatSaveAssistant_FixedConversation(r) ==
    /\ chat[r].pc = "save_assistant"
    /\ save_message("c1", "assistant", chat[r].assistant_text)
    /\ chat' = [chat EXCEPT ![r] =
                  Ended([@ EXCEPT !.assistant_row = sqlite_sequence'.messages,
                                  !.trace = @ \o <<"save_message">>],
                        "done", Response(OkResponse, chat[r].assistant_text))]
    /\ UNCHANGED <<documents, chunks, ing, call>>

\* save_message(req.conversation_id, "assistant", assistant_text), then the
\* handler returns {"response": assistant_text}
ChatSaveAssistant(r) ==
    /\ chat[r].pc = "save_assistant"
    /\ save_message(chat[r].conversation_id, "assistant", chat[r].assistant_text)
    /\ chat' = [chat EXCEPT ![r] =
                  Ended([@ EXCEPT !.assistant_row = sqlite_sequence'.messages,
                                  !.trace = @ \o <<"save_message">>],
                        "done", Response(OkResponse, chat[r].assistant_text))]
    /\ UNCHANGED <<documents, chunks, ing, call>>

\* the process dies while the request is in flight
ChatCrash(r) ==
    /\ chat[r].pc \in {"embed", "generate", "save_user", "save_assistant"}
    /\ chat' = [chat EXCEPT ![r] = Ended(@, "crashed", NoResponse)]
    /\ UNCHANGED <<messages, documents, chunks, sqlite_sequence, ing, call>>

----------------------------------------------------------------------------
(* app/main.py: ingest, one action per step between two suspension points *)

IdleIngest ==
    [pc |-> "idle", name |-> "", text |-> "", doc_id |-> 0, chunks |-> <<>>,
     added |-> 0, response |-> NoResponse, chunks_added |-> 0, trace |-> <<>>,
     raised |-> ""]

\* the request arrives; after validation the handler creates the document and
\* chunks the stripped text
IngestCreate(name, text) ==
    /\ ing.pc = "idle"
    /\ IF ValidIngestRequest(name, text)
       THEN /\ create_document(name)
            /\ ing' = [ing EXCEPT !.pc = "embed",
                                  !.name = name,
                                  !.text = strip(text),
                                  !.doc_id = sqlite_sequence'.documents,
                                  !.chunks = text_chunks(strip(text)),
                                  !.trace = <<"create_document">>]
       ELSE /\ ing' = [ing EXCEPT !.pc = "rejected", !.response = Response(ValidationResponse, "")]
            /\ UNCHANGED <<documents, sqlite_sequence>>
    /\ UNCHANGED <<messages, chunks, chat, call>>

\* one turn of the loop: client.embeddings.create returns, add_chunk stores the
\* chunk; an IntegrityError of add_chunk ends the request with a 500
IngestChunkOk(embedding) ==
    /\ ing.pc = "embed"
    /\ ing.added < Len(ing.chunks)
    /\ add_chunk(ing.doc_id, ing.chunks[ing.added + 1], embedding)
    /\ IF ForeignKeyOk(ing.doc_id)
       THEN ing' = [ing EXCEPT !.added = @ + 1,
                               !.trace = @ \o <<"embeddings.create", "add_chunk">>]
       ELSE ing' = [ing EXCEPT !.pc = "failed",
                               !.raised = "IntegrityError",
                               !.response = [status_code |-> 500, error |-> "", body |-> ""],
                               !.trace = @ \o <<"embeddings.create", "add_chunk">>]
    /\ UNCHANGED <<messages, documents, chat, call>>

\* IngestChunkFail of a handler that rolls the ingest back: the document and the
\* chunks stored so far are deleted
IngestChunkFail_Rollback(exc) ==
    /\ ing.pc = "embed"
    /\ ing.added < Len(ing.chunks)
    /\ documents' = SelectSeq(documents, LAMBDA d : d.id # ing.doc_id)
    /\ chunks' = SelectSeq(chunks, LAMBDA c : c.document_id # ing.doc_id)
    /\ ing' = [ing EXCEPT !.pc = "failed",
                          !.raised = exc,
                          !.response = Response(ExceptionResponse(exc), ""),
                          !.trace = @ \o <<"embeddings.create">>]
    /\ UNCHANGED <<messages, sqlite_sequence, chat, call>>

\* client.embeddings.create raises inside the loop: the exception handler answers,
\* nothing is undone
IngestChunkFail(exc) ==
    /\ ing.pc = "embed"
    /\ ing.added < Len(ing.chunks)
    /\ ing' = [ing EXCEPT !.pc = "failed",
                          !.raised = exc,
                          !.response = Response(ExceptionResponse(exc), ""),
                          !.trace = @ \o <<"embeddings.create">>]
    /\ UNCHANGED <<messages, documents, chunks, sqlite_sequence, chat, call>>

\* the loop is over: the handler returns document_id and chunks_added
IngestRespond ==
    /\ ing.pc = "embed"
    /\ ing.added = Len(ing.chunks)
    /\ ing' = [ing EXCEPT !.pc = "done",
                          !.response = Response(OkResponse, ""),
                          !.chunks_added = Len(ing.chunks)]
    /\ UNCHANGED <<messages, documents, chunks, sqlite_sequence, chat, call>>

\* the process dies while the request is in flight
IngestCrash ==
    /\ ing.pc = "embed"
    /\ ing' = [ing EXCEPT !.pc = "crashed"]
    /\ UNCHANGED <<messages, documents, chunks, sqlite_sequence, chat, call>>

----------------------------------------------------------------------------
(* Specifications *)

\* every request slot idle over one of the seed stores
Init ==
    /\ \E s \in Seeds :
          /\ messages = s.messages
          /\ documents = s.documents
          /\ chunks = s.chunks
          /\ sqlite_sequence = s.sqlite_sequence
    /\ chat = [r \in ChatSlots |-> IdleChat]
    /\ ing = IdleIngest
    /\ call = NoCall

\* concurrent /chat requests over one store
NextChat ==
    \/ \E r \in ChatSlots, b \in ChatBodies : ChatLoad(r, b.conversation_id, b.message)
    \/ \E r \in ChatSlots, e \in Embeddings : ChatEmbedOk(r, e)
    \/ \E r \in ChatSlots, x \in Exceptions : ChatEmbedFail(r, x)
    \/ \E r \in ChatSlots, t \in Contents : ChatGenerateOk(r, t)
    \/ \E r \in ChatSlots, x \in Exceptions : ChatGenerateFail(r, x)
    \/ \E r \in ChatSlots : ChatSaveUser(r)
    \/ \E r \in ChatSlots : ChatSaveAssistant(r)
    \/ \E r \in ChatSlots : ChatCrash(r)

SpecChat == Init /\ [][NextChat]_vars

\* an /ingest request
NextIngest ==
    \/ \E t \in IngestTexts : IngestCreate("doc", t)
    \/ \E e \in Embeddings : IngestChunkOk(e)
    \/ \E x \in Exceptions : IngestChunkFail(x)
    \/ IngestRespond
    \/ IngestCrash

SpecIngest == Init /\ [][NextIngest]_vars

----------------------------------------------------------------------------
(* app/main.py: stats. get_counts runs three SELECT COUNT statements on one
   connection outside any transaction, so each reads the store as it is when the
   statement runs; call holds the request in flight *)

\* the request arrives; SELECT COUNT FROM messages
StatsCountMessages ==
    /\ call = NoCall
    /\ call' = [op |-> "stats", pc |-> "documents", response |-> NoResponse,
                messages |-> get_counts.messages, documents |-> 0, chunks |-> 0]
    /\ UNCHANGED <<messages, documents, chunks, sqlite_sequence, chat, ing>>

\* StatsCountDocuments that counts the rows of table chunks
StatsCountDocuments_WrongTable ==
    /\ call.op = "stats" /\ call.pc = "documents"
    /\ call' = [call EXCEPT !.pc = "chunks", !.documents = get_counts.chunks]
    /\ UNCHANGED <<messages, documents, chunks, sqlite_sequence, chat, ing>>

\* SELECT COUNT FROM documents
StatsCountDocuments ==
    /\ call.op = "stats" /\ call.pc = "documents"
    /\ call' = [call EXCEPT !.pc = "chunks", !.documents = get_counts.documents]
    /\ UNCHANGED <<messages, documents, chunks, sqlite_sequence, chat, ing>>

\* SELECT COUNT FROM chunks, then the handler returns {"status": "ok", **counts}
StatsCountChunks ==
    /\ call.op = "stats" /\ call.pc = "chunks"
    /\ call' = [call EXCEPT !.pc = "done", !.chunks = get_counts.chunks,
                            !.response = Response(OkResponse, "")]
    /\ UNCHANGED <<messages, documents, chunks, sqlite_sequence, chat, ing>>

----------------------------------------------------------------------------
(* The service: /chat, /ingest and /stats requests interleaved over one store *)

\* the texts /ingest is called with while other requests run: blank, and one full
\* chunk and one character inside whitespace
ServiceTexts == {" ", " \n" \o SubSeq(LongText, 1, 801) \o "\t"}

\* one /chat request, one /ingest request and one /stats request, interleaved
NextService ==
    \/ \E b \in ChatBodies : ChatLoad(1, b.conversation_id, b.message)
    \/ \E e \in Embeddings : ChatEmbedOk(1, e)
    \/ \E x \in Exceptions : ChatEmbedFail(1, x)
    \/ \E t \in Contents : ChatGenerateOk(1, t)
    \/ \E x \in Exceptions : ChatGenerateFail(1, x)
    \/ ChatSaveUser(1)
    \/ ChatSaveAssistant(1)
    \/ ChatCrash(1)
    \/ \E t \in ServiceTexts : IngestCreate("doc", t)
    \/ \E e \in Embeddings : IngestChunkOk(e)
    \/ \E x \in Exceptions : IngestChunkFail(x)
    \/ IngestRespond
    \/ IngestCrash
    \/ StatsCountMessages
    \/ StatsCountDocuments
    \/ StatsCountChunks

SpecService == Init /\ [][NextService]_vars

----------------------------------------------------------------------------
(* Direct calls of the Conversation Store functions of app/db.py *)

\* turns stored by direct calls
MaxTurns == 4

\* the largest limit load_messages is called with
MaxLimit == 3

\* the turns save_message is called with
TurnInputs ==
    {[conversation_id |-> "c1", role |-> "user", content |-> "hi"],
     [conversation_id |-> "c1", role |-> "assistant", content |-> "ok"],
     [conversation_id |-> "c2", role |-> "user", content |-> "yo"]}

\* the conversations load_messages is called with; "c3" never has turns
LoadInputs == {"c1", "c2", "c3"}

CallSaveMessage(t) ==
    /\ Len(messages) < MaxTurns
    /\ save_message(t.conversation_id, t.role, t.content)
    /\ call' = [op |-> "save_message"]
    /\ UNCHANGED <<documents, chunks, chat, ing>>

CallLoadMessages(conversation_id, limit) ==
    /\ call' = [op |-> "load_messages", conversation_id |-> conversation_id, limit |-> limit,
                out |-> load_messages(conversation_id, limit), raised |-> ""]
    /\ UNCHANGED <<messages, documents, chunks, sqlite_sequence, chat, ing>>

InitStore ==
    /\ messages = EmptyStore.messages
    /\ documents = EmptyStore.documents
    /\ chunks = EmptyStore.chunks
    /\ sqlite_sequence = EmptyStore.sqlite_sequence
    /\ chat = [r \in ChatSlots |-> IdleChat]
    /\ ing = IdleIngest
    /\ call = NoCall

NextConversationStore ==
    \/ \E t \in TurnInputs : CallSaveMessage(t)
    \/ \E c \in LoadInputs, n \in 0..MaxLimit : CallLoadMessages(c, n)

SpecConversationStore == InitStore /\ [][NextConversationStore]_vars

----------------------------------------------------------------------------
(* Direct calls of the Document Store functions of app/db.py *)

\* documents and chunks ever created by direct calls
MaxDocs == 2

MaxChunks == 3

\* the largest top_k search_chunks is called with
MaxTopK == 2

\* the chunks add_chunk is called with, one per vector of ChunkVectors
ChunkInputs ==
    {[content |-> "a", embedding |-> <<1, 0>>],
     [content |-> "b", embedding |-> <<0, 1>>],
     [content |-> "c", embedding |-> <<2, 0>>],
     [content |-> "d", embedding |-> <<0, 0>>],
     [content |-> "e", embedding |-> <<1>>],
     [content |-> "x", embedding |-> <<1, 1>>],
     [content |-> "y", embedding |-> <<3, 3>>]}

\* the chunks add_chunk is called with where only the dimension matters
DimensionInputs == {c \in ChunkInputs : c.content \in {"a", "e"}}

CallCreateDocument(name) ==
    /\ sqlite_sequence.documents < MaxDocs
    /\ create_document(name)
    /\ call' = [op |-> "create_document", out |-> sqlite_sequence'.documents]
    /\ UNCHANGED <<messages, chunks, chat, ing>>

\* document_id may name a document that was never created
CallAddChunk(document_id, c) ==
    /\ sqlite_sequence.chunks < MaxChunks
    /\ add_chunk(document_id, c.content, c.embedding)
    /\ call' = [op |-> "add_chunk", document_id |-> document_id,
                content |-> c.content, embedding |-> c.embedding,
                raised |-> IF ForeignKeyOk(document_id) THEN "" ELSE "IntegrityError"]
    /\ UNCHANGED <<messages, documents, chat, ing>>

CallSearchChunks(query_embedding, k) ==
    /\ call' = [op |-> "search_chunks", query_embedding |-> query_embedding, top_k |-> k,
                out |-> search_chunks(query_embedding, k), raised |-> ""]
    /\ UNCHANGED <<messages, documents, chunks, sqlite_sequence, chat, ing>>

\* the Document Store under creation and insertion; the document_id given to
\* add_chunk may be one more than any id create_document can have returned
NextDocumentStore ==
    \/ CallCreateDocument("doc")
    \/ \E d \in 1..(MaxDocs + 1), c \in DimensionInputs : CallAddChunk(d, c)

SpecDocumentStore == InitStore /\ [][NextDocumentStore]_vars

\* retrieval over the chunks of one document
NextRetriever ==
    \/ sqlite_sequence.documents = 0 /\ CallCreateDocument("doc")
    \/ \E c \in ChunkInputs : CallAddChunk(1, c)
    \/ \E q \in QueryInputs, k \in 0..MaxTopK : CallSearchChunks(q, k)

SpecRetriever == InitStore /\ [][NextRetriever]_vars

----------------------------------------------------------------------------
(* Direct calls of _cosine_similarity *)

\* the longest vector _cosine_similarity is called with
MaxDim == 2

\* the vectors of length at most MaxDim over {-1, 0, 2}
VectorInputs == UNION {[1..n -> {-1, 0, 2}] : n \in 0..MaxDim}

\* one call per run: _cosine_similarity reads and writes no state
CallCosineSimilarity(a, b) ==
    /\ call = NoCall
    /\ call' = [op |-> "_cosine_similarity", a |-> a, b |-> b,
                out |-> _cosine_similarity(a, b), raised |-> ""]
    /\ UNCHANGED <<messages, documents, chunks, sqlite_sequence, chat, ing>>

NextVectorMath == \E a \in VectorInputs, b \in VectorInputs : CallCosineSimilarity(a, b)

SpecVectorMath == InitStore /\ [][NextVectorMath]_vars

----------------------------------------------------------------------------
(* Direct calls of the chunking of ingest *)

\* the longest text body chunked
MaxTextLen == 1601

\* the first n characters of LongText: bare, inside blanks and line breaks, and
\* inside a vertical tab, a file separator, a unit separator and a no-break space
ChunkerInputs ==
    UNION {{SubSeq(LongText, 1, n),
            " \n" \o SubSeq(LongText, 1, n) \o "\t ",
            "" \o SubSeq(LongText, 1, n) \o " "} : n \in 0..MaxTextLen}

\* text = req.text.strip(); chunks = [...]; one call per run
CallTextChunks(text) ==
    /\ call = NoCall
    /\ call' = [op |-> "text_chunks", text |-> text, stripped |-> strip(text),
                out |-> text_chunks(strip(text))]
    /\ UNCHANGED <<messages, documents, chunks, sqlite_sequence, chat, ing>>

NextChunker == \E t \in ChunkerInputs : CallTextChunks(t)

SpecChunker == InitStore /\ [][NextChunker]_vars

----------------------------------------------------------------------------
(* Vocabulary of the properties *)

\* the rowids of the turns request r has appended
RowsOf(r) == {chat[r].user_row, chat[r].assistant_row} \ {0}

\* the turn with rowid id
TurnById(id) == messages[CHOOSE i \in DOMAIN messages : messages[i].id = id]

HasTurn(id) == \E i \in DOMAIN messages : messages[i].id = id

\* the store is a seed store followed by turns whose rowids are all in ids
SeedThenOnly(ids) ==
    \E s \in Seeds :
        /\ Len(s.messages) <= Len(messages)
        /\ SubSeq(messages, 1, Len(s.messages)) = s.messages
        /\ \A i \in (Len(s.messages) + 1)..Len(messages) : messages[i].id \in ids

\* the n most recent turns of conversation c, oldest first, as (role, content):
\* the turns of c with fewer than n later turns of c, by increasing rowid
RecentTurns(c, n) ==
    LET ids == {messages[i].id : i \in {j \in DOMAIN messages : messages[j].conversation_id = c}}
        top == {i \in ids : Cardinality({j \in ids : j > i}) < n}
        nth(k) == CHOOSE i \in top : Cardinality({j \in top : j < i}) = k - 1
    IN [k \in 1..Cardinality(top) |-> <<TurnById(nth(k)).role, TurnById(nth(k)).content>>]

Last(s) == s[Len(s)]

----------------------------------------------------------------------------
(* C1 *)

\* C1 as stated: after a chat request on c completes successfully, c's log holds
\* a new user turn with the request's message, immediately followed (no turn of c
\* in between) by a new assistant turn with the returned response text.
C1_TurnsAdjacent ==
    \A r \in ChatSlots :
        chat[r].pc = "done" =>
            /\ HasTurn(chat[r].user_row) /\ HasTurn(chat[r].assistant_row)
            /\ chat[r].user_row < chat[r].assistant_row
            /\ \A i \in DOMAIN messages :
                  messages[i].conversation_id = chat[r].conversation_id
                      => ~(chat[r].user_row < messages[i].id /\ messages[i].id < chat[r].assistant_row)

\* C1 amended: after a chat request on c completes successfully, the store holds
\* exactly one new user turn with the request's message and exactly one new
\* assistant turn with the returned response text, the user turn first; a turn of
\* c between the two was appended by another chat request (one running
\* concurrently on c), and no turn of the store is unaccounted for.
C1_TurnsPersistedInOrder ==
    \A r \in ChatSlots :
        chat[r].pc = "done" =>
            /\ HasTurn(chat[r].user_row) /\ HasTurn(chat[r].assistant_row)
            /\ chat[r].user_row < chat[r].assistant_row
            /\ TurnById(chat[r].user_row) =
                  [id |-> chat[r].user_row, conversation_id |-> chat[r].conversation_id,
                   role |-> "user", content |-> chat[r].message]
            /\ TurnById(chat[r].assistant_row) =
                  [id |-> chat[r].assistant_row, conversation_id |-> chat[r].conversation_id,
                   role |-> "assistant", content |-> chat[r].response.body]
            /\ Cardinality({i \in DOMAIN messages : messages[i].id \in RowsOf(r)}) = 2
            /\ \A i \in DOMAIN messages :
                  (chat[r].user_row < messages[i].id /\ messages[i].id < chat[r].assistant_row)
                      => \E q \in ChatSlots \ {r} : messages[i].id \in RowsOf(q)
            /\ SeedThenOnly(UNION {RowsOf(q) : q \in ChatSlots})

\* two requests on one conversation have completed, the user turn of one between
\* the two turns of the other
C1_Witness ==
    \E r, q \in ChatSlots :
        /\ r # q
        /\ chat[r].pc = "done" /\ chat[q].pc = "done"
        /\ chat[r].conversation_id = chat[q].conversation_id
        /\ chat[r].user_row < chat[q].user_row
        /\ chat[q].user_row < chat[r].assistant_row

----------------------------------------------------------------------------
(* C2 *)

\* C2: a chat request whose embedding call or generation call failed has
\* persisted no turn: it made no save_message call and appended no row, so the
\* store is a seed store plus the turns of the other requests only; it ended with
\* an error response; and after an embedding failure it called neither
\* search_chunks nor the generation backend.
C2_FailedChatPersistsNothing ==
    \A r \in ChatSlots :
        chat[r].pc = "failed" =>
            /\ RowsOf(r) = {}
            /\ "save_message" \notin Range(chat[r].trace)
            /\ SeedThenOnly(UNION {RowsOf(q) : q \in ChatSlots \ {r}})
            /\ chat[r].response.status_code \in {400, 401, 429, 502}
            /\ Last(chat[r].trace) \in {"embeddings.create", "chat.completions.create"}
            /\ Last(chat[r].trace) = "embeddings.create" =>
                  chat[r].trace = <<"load_messages", "embeddings.create">>

\* one request failed in the embedding call and another in the generation call,
\* over a store that holds turns
C2_Witness ==
    \E r, q \in ChatSlots :
        /\ chat[r].pc = "failed" /\ Last(chat[r].trace) = "embeddings.create"
        /\ chat[q].pc = "failed" /\ Last(chat[q].trace) = "chat.completions.create"
        /\ messages # <<>>

----------------------------------------------------------------------------
(* C3 *)

\* the message list chat is to give the generation backend
ExpectedSent(turns, retrieved, message) ==
    (IF Len(retrieved) >= 1 THEN <<ContextMessage(retrieved)>> ELSE <<>>)
        \o [i \in 1..Len(turns) |-> [role |-> turns[i][1], content |-> turns[i][2]]]
        \o <<[role |-> "user", content |-> message]>>

\* C3: the history chat loads is the min(20, n) most recent turns of the
\* conversation, oldest first, and the list it gives the generation backend is
\* [a system message with the retrieved fragments, iff at least one was
\* retrieved] + [the loaded turns] + [the new user message]; with nothing
\* retrieved and no prior turn the list holds the user message alone.
C3_MessageSequence ==
    [][\A r \in ChatSlots :
          /\ (chat[r].pc = "idle" /\ chat'[r].pc = "embed") =>
                /\ chat'[r].history = RecentTurns(chat'[r].conversation_id, 20)
                /\ Len(chat'[r].history) =
                      Min(20, Cardinality({i \in DOMAIN messages :
                              messages[i].conversation_id = chat'[r].conversation_id}))
          /\ chat'[r].pc = "generate" =>
                /\ chat'[r].history = chat[r].history
                /\ chat'[r].messages =
                      ExpectedSent(chat'[r].history, chat'[r].retrieved, chat'[r].message)
                /\ (chat'[r].history = <<>> /\ chat'[r].retrieved = <<>>) =>
                      chat'[r].messages = <<[role |-> "user", content |-> chat'[r].message]>>
    ]_vars

\* the generation backend is given a system message, then 20 loaded turns of a
\* longer conversation, then the user message
C3_Witness ==
    \E r \in ChatSlots :
        /\ chat[r].pc = "generate"
        /\ Len(chat[r].history) = 20
        /\ Len(chat[r].retrieved) = 4
        /\ Len(chat[r].messages) = 22
        /\ chat[r].messages[1].role = "system"
        /\ chat[r].messages[22] = [role |-> "user", content |-> chat[r].message]

----------------------------------------------------------------------------
(* C4 *)

\* the turns of conversation c
TurnsOf(c) == {i \in DOMAIN messages : messages[i].conversation_id = c}

\* C4: load_messages(c, limit) returns exactly the min(limit, n) turns of c with
\* the largest rowids, by strictly increasing rowid, n being the number of turns
\* of c; the empty sequence (and no error) for a conversation without turns; and
\* never a turn of another conversation.
C4_LoadMessages ==
    call.op = "load_messages" =>
        LET c == call.conversation_id
            n == Cardinality(TurnsOf(c))
            m == Min(call.limit, n)
        IN /\ call.raised = ""
           /\ Len(call.out) = m
           /\ n = 0 => call.out = <<>>
           /\ \E pos \in [1..m -> DOMAIN messages] :
                 /\ \A k \in 1..m : pos[k] \in TurnsOf(c)
                 /\ \A k \in 1..m : call.out[k] = <<messages[pos[k]].role, messages[pos[k]].content>>
                 /\ \A k \in 1..(m - 1) : messages[pos[k]].id < messages[pos[k + 1]].id
                 /\ \A i \in TurnsOf(c) :
                       (\A k \in 1..m : pos[k] # i) =>
                           \A k \in 1..m : messages[i].id < messages[pos[k]].id

\* a call with a limit below the number of turns of the conversation, which sits
\* among turns of another conversation
C4_Witness ==
    /\ call.op = "load_messages"
    /\ call.limit = 2
    /\ Cardinality(TurnsOf(call.conversation_id)) = 3
    /\ \E i \in DOMAIN messages : messages[i].conversation_id # call.conversation_id
    /\ Len(call.out) = 2

----------------------------------------------------------------------------
(* C5 *)

\* the similarity score of stored chunk i against query q
ScoreOf(q, i) == _cosine_similarity(q, JsonLoads(chunks[i].embedding_json))

\* C5: search_chunks(query, k) returns min(k, number of stored chunks) contents,
\* never more than k, of distinct stored chunks whose scores against the query
\* are non-increasing in result order, and no chunk left out scores more than a
\* returned one; with no chunk stored it returns the empty sequence, no error.
C5_SearchChunks ==
    call.op = "search_chunks" =>
        LET q == call.query_embedding
            m == Min(call.top_k, Len(chunks))
        IN /\ call.raised = ""
           /\ Len(call.out) = m
           /\ Len(call.out) <= call.top_k
           /\ chunks = <<>> => call.out = <<>>
           /\ \E pos \in [1..m -> DOMAIN chunks] :
                 /\ \A i, j \in 1..m : i # j => pos[i] # pos[j]
                 /\ \A i \in 1..m : call.out[i] = chunks[pos[i]].content
                 /\ \A i \in 1..(m - 1) : ~ScoreLess(ScoreOf(q, pos[i]), ScoreOf(q, pos[i + 1]))
                 /\ \A j \in DOMAIN chunks :
                       (\A i \in 1..m : pos[i] # j) =>
                           \A i \in 1..m : ~ScoreLess(ScoreOf(q, pos[i]), ScoreOf(q, j))

\* a search that returns two of three chunks, the one left out scoring strictly
\* less than the two returned, which do not tie
C5_Witness ==
    /\ call.op = "search_chunks"
    /\ call.top_k = 2
    /\ Len(chunks) = 3
    /\ Len(call.out) = 2
    /\ \E i, j, l \in DOMAIN chunks :
          /\ call.out = <<chunks[i].content, chunks[j].content>>
          /\ ScoreLess(ScoreOf(call.query_embedding, j), ScoreOf(call.query_embedding, i))
          /\ ScoreLess(ScoreOf(call.query_embedding, l), ScoreOf(call.query_embedding, j))

----------------------------------------------------------------------------
(* C6 *)

\* C6: the chunking of ingest partitions the stripped text: the stripped text is
\* the text without its leading and trailing whitespace, the chunks concatenated
\* in order are the stripped text, every chunk has length in 1..800, and every
\* chunk but the last has length 800.
C6_ChunksPartitionText ==
    call.op = "text_chunks" =>
        LET t == call.stripped
            out == call.out
        IN /\ \E lead \in 0..(Len(call.text) - Len(t)) :
                 /\ SubSeq(call.text, lead + 1, lead + Len(t)) = t
                 /\ \A i \in (1..lead) \cup ((lead + Len(t) + 1)..Len(call.text)) :
                       CharAt(call.text, i) \in Whitespace
           /\ t # "" => (CharAt(t, 1) \notin Whitespace /\ CharAt(t, Len(t)) \notin Whitespace)
           /\ Join("", out) = t
           /\ \A j \in 1..Len(out) : Len(out[j]) > 0 /\ Len(out[j]) <= 800
           /\ \A j \in 1..(Len(out) - 1) : Len(out[j]) = 800

\* a text with whitespace around 1601 characters: two chunks of 800 and one of 1
C6_Witness ==
    /\ call.op = "text_chunks"
    /\ Len(call.text) > Len(call.stripped)
    /\ Len(call.stripped) = 1601
    /\ Len(call.out) = 3
    /\ Len(call.out[1]) = 800 /\ Len(call.out[2]) = 800 /\ Len(call.out[3]) = 1

----------------------------------------------------------------------------
(* C7 *)

NoOrphanChunks ==
    \A i \in DOMAIN chunks : \E j \in DOMAIN documents : documents[j].id = chunks[i].document_id

\* C7: add_chunk with a document_id that names no document fails and leaves the
\* chunks unchanged, add_chunk for an existing document appends one chunk; after
\* every step every stored chunk's document_id names an existing document. The
\* schema declares ON DELETE CASCADE, and no operation of the program deletes a
\* document, so no step removes one.
C7_NoOrphanChunks ==
    [][/\ (call'.op = "add_chunk" /\ ~(\E j \in DOMAIN documents : documents[j].id = call'.document_id))
              => (call'.raised = "IntegrityError" /\ chunks' = chunks)
       /\ (call'.op = "add_chunk" /\ (\E j \in DOMAIN documents : documents[j].id = call'.document_id))
              => /\ call'.raised = ""
                 /\ Len(chunks') = Len(chunks) + 1
                 /\ SubSeq(chunks', 1, Len(chunks)) = chunks
                 /\ chunks'[Len(chunks')].document_id = call'.document_id
       /\ Len(documents) <= Len(documents') /\ SubSeq(documents', 1, Len(documents)) = documents
       /\ NoOrphanChunks'
    ]_vars

\* an add_chunk for a document id that no document has just failed, while
\* documents exist and the chunks of one of them are stored
C7_Witness ==
    /\ call.op = "add_chunk"
    /\ call.raised = "IntegrityError"
    /\ documents # <<>>
    /\ \A j \in DOMAIN documents : documents[j].id # call.document_id
    /\ chunks # <<>>

----------------------------------------------------------------------------
(* C8 *)

\* C8 as stated: given two vectors of unequal length, the similarity operation
\* fails with InvalidInput instead of returning a score.
C8_UnequalLengthsRejected ==
    (call.op = "_cosine_similarity" /\ Len(call.a) # Len(call.b)) => call.raised = "InvalidInput"

----------------------------------------------------------------------------
(* C9 *)

\* C9 as stated: all stored chunks have embeddings of one dimension (an add_chunk
\* of another dimension stores nothing).
C9_OneDimension ==
    \A i, j \in DOMAIN chunks :
        Len(JsonLoads(chunks[i].embedding_json)) = Len(JsonLoads(chunks[j].embedding_json))

----------------------------------------------------------------------------
(* C10 *)

\* C10 as stated: every persisted turn has non-empty text content.
C10_TurnContentNonEmpty ==
    \A i \in DOMAIN messages : messages[i].content # ""

----------------------------------------------------------------------------
(* C11 *)

\* rows_ holds its rows by strictly increasing rowid
ById(rows_) == \A i \in 1..(Len(rows_) - 1) : rows_[i].id < rows_[i + 1].id

\* the rows of table rows_ that belong to conversation c, in the order of rows_
\* (by increasing rowid where ById(rows_))
LogOf(rows_, c) ==
    LET InConvo(r) == r.conversation_id = c
    IN SelectSeq(rows_, InConvo)

IsPrefix(s, t) == Len(s) <= Len(t) /\ SubSeq(t, 1, Len(s)) = s

\* the conversations a turn is ever stored under
Conversations == {"c1", "c2"}

\* C11: over every step of chat, ingest and stats requests no stored turn is
\* modified or removed, every turn appended gets a rowid greater than every
\* rowid already stored (so rowids are unique and the table is in rowid order),
\* and each conversation's log after the step has its log before the step as a
\* prefix.
C11_AppendOnly ==
    [][/\ IsPrefix(messages, messages')
       /\ \A j \in (Len(messages) + 1)..Len(messages') :
             \A i \in DOMAIN messages : messages'[j].id > messages[i].id
       /\ ById(messages) /\ ById(messages')
       /\ \A c \in Conversations : IsPrefix(LogOf(messages, c), LogOf(messages', c))
    ]_vars

\* a chat has appended its two turns to a conversation that already had turns,
\* while an ingest and a stats request ran to their ends
C11_Witness ==
    /\ chat[1].pc = "done"
    /\ ing.pc = "done"
    /\ call.op = "stats" /\ call.pc = "done"
    /\ Len(LogOf(messages, chat[1].conversation_id)) > 2

----------------------------------------------------------------------------
(* C12 *)

\* the requests that completed successfully
DoneSlots == {r \in ChatSlots : chat[r].pc = "done"}

\* C12: under every interleaving of concurrent chat requests, crashes included,
\* the assistant turn of a request is stored only if the user turn of the same
\* request is stored under a smaller rowid in the same conversation; no turn
\* belongs to two requests and every turn beyond the seed belongs to one; and the
\* n requests that completed contributed exactly 2n stored turns.
C12_NoDanglingAssistant ==
    /\ \A r \in ChatSlots :
          /\ chat[r].assistant_row # 0 =>
                /\ HasTurn(chat[r].assistant_row)
                /\ TurnById(chat[r].assistant_row).role = "assistant"
                /\ chat[r].user_row # 0
                /\ chat[r].user_row < chat[r].assistant_row
                /\ TurnById(chat[r].user_row).conversation_id =
                      TurnById(chat[r].assistant_row).conversation_id
          /\ chat[r].user_row # 0 =>
                /\ HasTurn(chat[r].user_row)
                /\ TurnById(chat[r].user_row).role = "user"
          /\ chat[r].pc = "done" => Cardinality(RowsOf(r)) = 2
    /\ \A r, q \in ChatSlots : r # q => RowsOf(r) \cap RowsOf(q) = {}
    /\ SeedThenOnly(UNION {RowsOf(q) : q \in ChatSlots})
    /\ Cardinality({i \in DOMAIN messages : messages[i].id \in UNION {RowsOf(r) : r \in DoneSlots}})
          = 2 * Cardinality(DoneSlots)

\* one request crashed between its two saves while another on the same
\* conversation completed, its user turn stored before and its assistant turn
\* after the dangling user turn
C12_Witness ==
    \E r, q \in ChatSlots :
        /\ chat[r].pc = "crashed" /\ chat[r].user_row # 0 /\ chat[r].assistant_row = 0
        /\ chat[q].pc = "done"
        /\ chat[q].user_row < chat[r].user_row /\ chat[r].user_row < chat[q].assistant_row
        /\ TurnById(chat[r].user_row).conversation_id = chat[q].conversation_id

----------------------------------------------------------------------------
(* C13 *)

\* the classification of a backend failure
Classification(exc) ==
    CASE exc = "AuthenticationError" -> "Unauthorized"
      [] exc = "RateLimitError" -> "RateLimited"
      [] exc = "BadRequestError" -> "BadUpstreamRequest"
      [] OTHER -> "UpstreamUnavailable"

\* the chat and ingest requests that a backend exception ended
BackendFailures ==
    {[raised |-> chat[r].raised, pc |-> chat[r].pc, response |-> chat[r].response] :
        r \in {q \in ChatSlots : chat[q].raised \in Exceptions}}
    \cup (IF ing.raised \in Exceptions
          THEN {[raised |-> ing.raised, pc |-> ing.pc, response |-> ing.response]}
          ELSE {})

\* C13: every request that a failure of the embedding or generation backend
\* ended, in chat or in ingest, has failed with an error response (never a
\* success) that carries one response code and one error identifier; two failures
\* have the same code, and the same identifier, exactly when they have the same
\* classification; and only UpstreamUnavailable is reported with the generic code
\* 502 and identifier openai_error.
C13_FailuresClassified ==
    /\ \A f \in BackendFailures :
          /\ f.pc = "failed"
          /\ f.response.status_code >= 400
          /\ f.response.error # ""
          /\ f.response.body = ""
          /\ (Classification(f.raised) = "UpstreamUnavailable") <=> (f.response.status_code = 502)
          /\ (Classification(f.raised) = "UpstreamUnavailable") <=> (f.response.error = "openai_error")
    /\ \A f, g \in BackendFailures :
          /\ (Classification(f.raised) = Classification(g.raised))
                <=> (f.response.status_code = g.response.status_code)
          /\ (Classification(f.raised) = Classification(g.raised))
                <=> (f.response.error = g.response.error)
    /\ \A x, y \in Exceptions :
          Classification(x) # Classification(y) =>
              /\ ExceptionResponse(x).status_code # ExceptionResponse(y).status_code
              /\ ExceptionResponse(x).error # ExceptionResponse(y).error

\* the generation call of a chat failed with one specific class and the embedding
\* call of an ingest, after a chunk was stored, with another
C13_Witness ==
    /\ chat[1].pc = "failed" /\ chat[1].raised = "AuthenticationError"
    /\ Last(chat[1].trace) = "chat.completions.create"
    /\ ing.pc = "failed" /\ ing.raised = "RateLimitError" /\ ing.added = 1
    /\ chat[1].response.status_code = 401 /\ ing.response.status_code = 429

----------------------------------------------------------------------------
(* C14 *)

\* the stored chunks of document d, in table order
ChunksOf(d) ==
    LET OfDoc(c) == c.document_id = d
    IN SelectSeq(chunks, OfDoc)

\* C14: after a successful ingest the store holds the seed documents and exactly
\* one new document, the one returned; the chunks stored under it number
\* chunks_added = ceil(len(trimmed text) / 800), have increasing chunk ids and
\* hold, in that order, the consecutive 800-character fragments of the trimmed
\* text; a text empty after trimming gives a document with no chunk and
\* chunks_added = 0, a text of 1600 characters two chunks of length 800.
C14_IngestStoresChunks ==
    ing.pc = "done" =>
        LET mine == ChunksOf(ing.doc_id)
            n == Len(ing.text)
        IN /\ ing.response.status_code = 200
           /\ \E s \in Seeds :
                 /\ documents = Append(s.documents, [id |-> ing.doc_id, name |-> ing.name])
                 /\ \A i \in DOMAIN s.documents : s.documents[i].id < ing.doc_id
                 /\ Len(chunks) = Len(s.chunks) + ing.chunks_added
           /\ Len(mine) = ing.chunks_added
           /\ ing.chunks_added = (n + 799) \div 800
           /\ \A i \in 1..(Len(mine) - 1) : mine[i].id < mine[i + 1].id
           /\ \A i \in 1..Len(mine) :
                 mine[i].content = SubSeq(ing.text, 800 * (i - 1) + 1, Min(800 * i, n))
           /\ Join("", [i \in 1..Len(mine) |-> mine[i].content]) = ing.text
           /\ n = 0 => (ing.chunks_added = 0 /\ mine = <<>>)
           /\ n = 1600 =>
                 (ing.chunks_added = 2 /\ Len(mine[1].content) = 800 /\ Len(mine[2].content) = 800)

\* an ingest of 1600 characters has completed over a store that held documents
C14_Witness ==
    /\ ing.pc = "done"
    /\ Len(ing.text) = 1600
    /\ ing.chunks_added = 2
    /\ Len(ChunksOf(ing.doc_id)) = 2
    /\ Len(documents) > 1

----------------------------------------------------------------------------
(* C15 *)

\* the number of times call f occurs in trace t
Calls(t, f) == Cardinality({i \in DOMAIN t : t[i] = f})

\* the position of the first call f in trace t, 0 if there is none
FirstCall(t, f) ==
    IF f \in Range(t) THEN CHOOSE i \in DOMAIN t : t[i] = f /\ \A j \in 1..(i - 1) : t[j] # f
    ELSE 0

\* C15: a chat request calls the embedding backend at most once and the
\* generation backend at most once; while it is in the generation call, and
\* whenever that call is on record, the embedding call and then search_chunks are
\* on record before it and the embedding call did not fail; a save_message is on
\* record only after a generation call that did not fail; a call that failed is
\* the last the request made.
C15_SequentialNoRetry ==
    \A r \in ChatSlots :
        LET t == chat[r].trace
        IN /\ Calls(t, "embeddings.create") <= 1
           /\ Calls(t, "chat.completions.create") <= 1
           /\ Calls(t, "search_chunks") <= 1
           /\ Calls(t, "save_message") <= 2
           /\ (chat[r].pc = "generate" \/ "chat.completions.create" \in Range(t)) =>
                 /\ SubSeq(t, 1, 3) = <<"load_messages", "embeddings.create", "search_chunks">>
                 /\ FirstCall(t, "chat.completions.create") \in {0, 4}
           /\ chat[r].pc = "generate" => (t = <<"load_messages", "embeddings.create", "search_chunks">>
                                            /\ chat[r].raised = "")
           /\ "save_message" \in Range(t) =>
                 /\ FirstCall(t, "chat.completions.create") = 4
                 /\ FirstCall(t, "save_message") = 5
                 /\ chat[r].raised = ""
           /\ (chat[r].user_row # 0 \/ chat[r].assistant_row # 0) => "save_message" \in Range(t)
           /\ chat[r].raised # "" =>
                 /\ chat[r].pc = "failed"
                 /\ t \in {<<"load_messages", "embeddings.create">>,
                           <<"load_messages", "embeddings.create", "search_chunks",
                             "chat.completions.create">>}

\* one request ran all its calls and completed, another stopped at a failed
\* generation call
C15_Witness ==
    \E r, q \in ChatSlots :
        /\ chat[r].pc = "done"
        /\ chat[r].trace = <<"load_messages", "embeddings.create", "search_chunks",
                             "chat.completions.create", "save_message", "save_message">>
        /\ chat[q].pc = "failed"
        /\ Last(chat[q].trace) = "chat.completions.create"

----------------------------------------------------------------------------
(* C16 *)

ScoreEqual(s, t) == ~ScoreLess(s, t) /\ ~ScoreLess(t, s)

\* C16: the result of search_chunks(query, k) is the contents of the first
\* min(k, number of chunks) positions of the one arrangement of the stored chunks
\* by non-increasing score in which chunks of equal score stand in table-scan
\* order: of two chunks with equal scores the one scanned first comes first and
\* is returned first, so the store and the query determine the result.
C16_TiesKeepScanOrder ==
    call.op = "search_chunks" =>
        LET q == call.query_embedding
            m == Min(call.top_k, Len(chunks))
            Before(i, j) == \/ ScoreLess(ScoreOf(q, j), ScoreOf(q, i))
                            \/ (ScoreEqual(ScoreOf(q, i), ScoreOf(q, j)) /\ i < j)
            rank(i) == 1 + Cardinality({j \in DOMAIN chunks : Before(j, i)})
        IN /\ Len(call.out) = m
           /\ \A i \in DOMAIN chunks : rank(i) <= m => call.out[rank(i)] = chunks[i].content

\* a search for two of three chunks that all score the same, the first and the
\* third with different contents: the first two in scan order are returned
C16_Witness ==
    /\ call.op = "search_chunks"
    /\ call.top_k = 2
    /\ Len(chunks) = 3
    /\ \A i, j \in DOMAIN chunks :
          ScoreEqual(ScoreOf(call.query_embedding, i), ScoreOf(call.query_embedding, j))
    /\ chunks[1].content # chunks[2].content
    /\ chunks[1].content # chunks[3].content
    /\ call.out = <<chunks[1].content, chunks[2].content>>

----------------------------------------------------------------------------
(* C17 *)

\* what a stats request that has counted returns
Returned(c) == [messages |-> c.messages, documents |-> c.documents, chunks |-> c.chunks]

\* C17 as stated: stats returns messages, documents and chunks equal to the
\* numbers of rows stored in the three stores when it returns, and changes no
\* store; a successful chat has grown messages by 2, a successful ingest
\* documents by 1 and chunks by chunks_added.
C17_StatsCurrentCounts ==
    [][/\ (call'.op = "stats" /\ call' # call) =>
              UNCHANGED <<messages, documents, chunks, sqlite_sequence>>
       /\ (call.op = "stats" /\ call.pc = "chunks" /\ call'.pc = "done") =>
              Returned(call') = [messages |-> Len(messages'), documents |-> Len(documents'),
                                 chunks |-> Len(chunks')]
       /\ chat'[1].pc = "done" =>
              \E s \in Seeds : Len(messages') = Len(s.messages) + 2
       /\ ing'.pc = "done" =>
              \E s \in Seeds : /\ Len(documents') = Len(s.documents) + 1
                               /\ Len(chunks') = Len(s.chunks) + ing'.chunks_added
    ]_vars

\* C17 amended: stats changes no store; each of the three counts it returns is
\* the number of rows its table held when that count was read, messages first,
\* then documents, then chunks, so that at the return chunks is the number
\* stored and messages and documents are at most the numbers stored (requests
\* that write between the reads are seen by the later counts only); a successful
\* chat has grown messages by 2, a successful ingest documents by 1 and chunks by
\* chunks_added.
C17_StatsObservational ==
    [][/\ (call'.op = "stats" /\ call' # call) =>
              UNCHANGED <<messages, documents, chunks, sqlite_sequence>>
       /\ (call = NoCall /\ call'.op = "stats") =>
              (call'.pc = "documents" /\ call'.messages = Len(messages))
       /\ (call.op = "stats" /\ call.pc = "documents" /\ call'.pc = "chunks") =>
              (call'.documents = Len(documents) /\ call'.messages = call.messages)
       /\ (call.op = "stats" /\ call.pc = "chunks" /\ call'.pc = "done") =>
              /\ call'.chunks = Len(chunks')
              /\ call'.documents = call.documents /\ call'.documents <= Len(documents')
              /\ call'.messages = call.messages /\ call'.messages <= Len(messages')
              /\ call'.response.status_code = 200
       /\ chat'[1].pc = "done" =>
              \E s \in Seeds : Len(messages') = Len(s.messages) + 2
       /\ ing'.pc = "done" =>
              \E s \in Seeds : /\ Len(documents') = Len(s.documents) + 1
                               /\ Len(chunks') = Len(s.chunks) + ing'.chunks_added
    ]_vars

\* stats has returned a documents count read before an ingest created its
\* document and a chunks count read after that ingest stored a chunk, and a chat
\* has completed
C17_Witness ==
    /\ call.op = "stats" /\ call.pc = "done"
    /\ call.documents = Len(documents) - 1
    /\ call.chunks = Len(chunks)
    /\ ing.added >= 1
    /\ chat[1].pc = "done"

----------------------------------------------------------------------------
(* C18 *)

\* C18: when the embedding call fails for the i-th fragment of an ingest, the
\* request ends with an error and nothing is undone: the document it created is
\* stored, the chunks stored under it are exactly the first i - 1 fragments, in
\* order, every one of them is returned by a retrieval over the whole store, the
\* store holds no other new chunk, and the embedding backend was called i times:
\* no fragment after the i-th was embedded or stored.
C18_IngestFailureKeepsPrefix ==
    (ing.pc = "failed" /\ ing.raised \in Exceptions) =>
        LET mine == ChunksOf(ing.doc_id)
            i == Calls(ing.trace, "embeddings.create")
        IN /\ ing.response.status_code >= 400
           /\ Last(ing.trace) = "embeddings.create"
           /\ i >= 1 /\ i <= Len(ing.chunks)
           /\ Calls(ing.trace, "add_chunk") = i - 1
           /\ \E j \in DOMAIN documents : documents[j] = [id |-> ing.doc_id, name |-> ing.name]
           /\ Len(mine) = i - 1
           /\ \A k \in 1..Len(mine) :
                 mine[k].content = SubSeq(ing.text, 800 * (k - 1) + 1, Min(800 * k, Len(ing.text)))
           /\ \E s \in Seeds :
                 /\ Len(documents) = Len(s.documents) + 1
                 /\ Len(chunks) = Len(s.chunks) + i - 1
                 /\ SubSeq(chunks, 1, Len(s.chunks)) = s.chunks
           /\ \A k \in 1..Len(mine) :
                 mine[k].content \in Range(search_chunks(<<1, 0>>, Len(chunks)))

\* the embedding call failed for the second of two fragments, over a store that
\* held documents: the first fragment stays stored
C18_Witness ==
    /\ ing.pc = "failed" /\ ing.raised \in Exceptions
    /\ Len(ing.chunks) = 2
    /\ Calls(ing.trace, "embeddings.create") = 2
    /\ Len(ChunksOf(ing.doc_id)) = 1
    /\ Len(documents) > 1

----------------------------------------------------------------------------
(* C19 *)

\* C19: every step of a chat request on conversation c, whether the request
\* succeeds or fails, leaves the documents, the chunks and the log of every
\* conversation other than c unchanged; every step of an ingest request leaves
\* all turns unchanged and the documents and chunks stored before the step as
\* they were, what it adds being its own document or a chunk of its own document.
C19_Frame ==
    [][/\ \A r \in ChatSlots :
             chat'[r] # chat[r] =>
                 /\ documents' = documents
                 /\ chunks' = chunks
                 /\ \A c \in Conversations :
                       LogOf(messages', c) # LogOf(messages, c) => c = chat[r].conversation_id
                 /\ chat'[r].pc \in {"failed", "rejected", "crashed"} => messages' = messages
       /\ ing' # ing =>
             /\ messages' = messages
             /\ IsPrefix(documents, documents')
             /\ IsPrefix(chunks, chunks')
             /\ \A i \in (Len(documents) + 1)..Len(documents') : documents'[i].id = ing'.doc_id
             /\ \A i \in (Len(chunks) + 1)..Len(chunks') : chunks'[i].document_id = ing'.doc_id
             /\ \A i \in DOMAIN documents : documents[i].id # ing'.doc_id \/ ing.doc_id = ing'.doc_id
    ]_vars

\* a chat on one conversation has completed while the other conversation holds
\* turns, and an ingest has stored chunks next to those of earlier documents
C19_Witness ==
    /\ chat[1].pc = "done"
    /\ chat[1].conversation_id = "c2"
    /\ Len(LogOf(messages, "c1")) > 0
    /\ Len(LogOf(messages, "c2")) = 2
    /\ ing.pc = "done" /\ ing.chunks_added = 2
    /\ Len(chunks) > 2

====
